---- MODULE Spec2Model ----
(***************************************************************************)
(* The information-flow metrics analyzer (information-flow-metrics.js):    *)
(* the InformationFlowAnalyzer class, its per-file syntax-tree walk, the   *)
(* fan-in / fan-out aggregation, cohesion, coupling, information-flow      *)
(* complexity, and the main script that drives them.                       *)
(*                                                                         *)
(* A source file is its syntax tree in pre-order: a sequence of nodes,     *)
(* each naming its parent by index (0 is the Program root).  Only the node *)
(* types the analyzer tells apart are kept; every other syntax node        *)
(* (blocks, statements, object literals) matches none of its rules and is  *)
(* skipped over.  Strings are JavaScript strings; includes, split and the  *)
(* template literals are computed character by character.                  *)
(***************************************************************************)
EXTENDS Integers, Sequences, FiniteSets, TLC

VARIABLES
  vocabulary,    \* which node labels the source files are written in
  disk,          \* the files under the analyzed directories, in discovery order
  allFiles,      \* main: the discovered paths, in discovery order
  pc,            \* main: position of the script
  idx,           \* main: number of discovered files handed to analyzeFile so far
  heap,          \* the funcInfo objects, by identity (index)
  modules,       \* this.modules: insertion-ordered Map path -> fileInfo
  functions,     \* this.functions: insertion-ordered Map functionKey -> funcInfo
  calls,         \* this.calls
  metrics,       \* main: the value generateMetrics returned
  ret,           \* the value the last metric method returned
  reportFile,    \* the report file on disk: <<>> while not written, else <<text>>
  exitCode,      \* process exit status once the script has ended, -1 before
  log,           \* what the script has printed, one entry per console.log
  sockets,       \* relay server: each socket id "unborn", "connected" or "gone"
  rooms,         \* relay server: the rooms Map, a function on the ids it holds
  joined,        \* relay server: the socket.io rooms each socket has joined
  sent           \* relay server: what the last handler run emitted

relay == <<sockets, rooms, joined, sent>>

vars == <<vocabulary, disk, allFiles, pc, idx, heap, modules, functions, calls, metrics,
          ret, reportFile, exitCode, log, relay>>

(***************************************************************************)
(* Bounds of the model.                                                    *)
(***************************************************************************)
MaxNodes == 4          \* syntax-tree nodes in the analyzed files, all together
MaxFiles == 2          \* files of a project whose functions call one another
MaxHandlerFiles == 1   \* files of a project of event handlers
MaxModuleFiles == 1    \* files of a project measured for cohesion
MaxFan == 4            \* callers and callees of the function of a rated project
MaxAnalyses == 3       \* calls of analyzeFile after which a client starts no more
MaxSockets == 2        \* sockets that connect to the relay server

(***************************************************************************)
(* JavaScript strings.                                                     *)
(***************************************************************************)
Includes(s, t) ==
  \E i \in 1..(Len(s) - Len(t) + 1) : SubSeq(s, i, i + Len(t) - 1) = t

RECURSIVE IndexOfFrom(_, _, _)
IndexOfFrom(s, ch, i) ==
  IF i > Len(s) THEN 0
  ELSE IF SubSeq(s, i, i) = ch THEN i
  ELSE IndexOfFrom(s, ch, i + 1)

RECURSIVE LastIndexOfFrom(_, _, _)
LastIndexOfFrom(s, ch, i) ==
  IF i < 1 THEN 0
  ELSE IF SubSeq(s, i, i) = ch THEN i
  ELSE LastIndexOfFrom(s, ch, i - 1)

RECURSIVE SplitDot(_)
SplitDot(s) ==
  LET k == IndexOfFrom(s, ".", 1)
  IN  IF k = 0 THEN <<s>>
      ELSE <<SubSeq(s, 1, k - 1)>> \o SplitDot(SubSeq(s, k + 1, Len(s)))

\* path.basename(filePath, path.extname(filePath))
Basename(p) ==
  LET slash == LastIndexOfFrom(p, "/", Len(p))
      base  == SubSeq(p, slash + 1, Len(p))
      dot   == LastIndexOfFrom(base, ".", Len(base))
  IN  IF dot <= 1 THEN base ELSE SubSeq(base, 1, dot - 1)

SeqToSet(s) == {s[i] : i \in 1..Len(s)}
InSeq(x, s) == \E i \in 1..Len(s) : s[i] = x

(***************************************************************************)
(* Syntax-tree nodes.  NoName stands for a name the tree does not give     *)
(* (the .name of a node that is no Identifier is undefined).               *)
(***************************************************************************)
NoName == ""
FunctionTypes ==
  {"FunctionDeclaration", "FunctionExpression", "ArrowFunctionExpression"}

IsFunc(n) == n.type \in FunctionTypes

Node(type, parent, name, calleeType, object, params, line) ==
  [type |-> type, parent |-> parent, name |-> name, calleeType |-> calleeType,
   object |-> object, params |-> params, line |-> line]

\* the nearest enclosing function definition of node i, 0 at file top level
RECURSIVE EnclFn(_, _)
EnclFn(nodes, i) ==
  LET p == nodes[i].parent
  IN  IF p = 0 THEN 0
      ELSE IF IsFunc(nodes[p]) THEN p
      ELSE EnclFn(nodes, p)

\* the nodes node i lies inside of
RECURSIVE Ancestors(_, _)
Ancestors(nodes, i) ==
  LET p == nodes[i].parent
  IN  IF p = 0 THEN {} ELSE {p} \cup Ancestors(nodes, p)

(***************************************************************************)
(* getCalleeName (lines 306-333).  A CallExpression node carries its       *)
(* callee: an Identifier (name), or a MemberExpression (object, name);     *)
(* object is NoName when the callee's object is not a plain Identifier.    *)
(***************************************************************************)
getCalleeName(n) ==
  IF n.calleeType = "Identifier" THEN n.name
  ELSE IF n.object # NoName THEN n.object \o "." \o n.name
  ELSE n.name

builtins ==
  {"console", "require", "setTimeout", "setInterval", "clearTimeout",
   "clearInterval", "Math", "Array", "Set", "Map", "Object", "parseInt",
   "parseFloat", "isNaN", "isFinite"}

(***************************************************************************)
(* extractCalls (lines 241-304): the calls of function f's body, nested    *)
(* function definitions not entered.  In pre-order these are the call     *)
(* nodes after f whose nearest enclosing function is f.                    *)
(***************************************************************************)
extractCallsStep(n, acc) ==
  IF n.calleeType = "Identifier"
  THEN IF n.name \notin builtins /\ ~InSeq(n.name, acc.calls)
       THEN [calls |-> Append(acc.calls, n.name), fanOut |-> acc.fanOut + 1]
       ELSE acc
  ELSE LET calleeName == getCalleeName(n)
       IN  IF calleeName # NoName /\ ~InSeq(calleeName, acc.calls)
           THEN [acc EXCEPT !.calls = Append(acc.calls, calleeName)]
           ELSE acc

RECURSIVE extractCallsFrom(_, _, _, _)
extractCallsFrom(nodes, f, j, acc) ==
  IF j > Len(nodes) THEN acc
  ELSE IF nodes[j].type = "CallExpression" /\ EnclFn(nodes, j) = f
       THEN extractCallsFrom(nodes, f, j + 1, extractCallsStep(nodes[j], acc))
       ELSE extractCallsFrom(nodes, f, j + 1, acc)

\* a faulty variant: the scan also enters the functions defined inside f
RECURSIVE extractCallsNestedFrom(_, _, _, _)
extractCallsNestedFrom(nodes, f, j, acc) ==
  IF j > Len(nodes) THEN acc
  ELSE IF nodes[j].type = "CallExpression" /\ f \in Ancestors(nodes, j)
       THEN extractCallsNestedFrom(nodes, f, j + 1, extractCallsStep(nodes[j], acc))
       ELSE extractCallsNestedFrom(nodes, f, j + 1, acc)

extractCallsNested(nodes, f) ==
  extractCallsNestedFrom(nodes, f, f + 1, [calls |-> <<>>, fanOut |-> 0])

extractCalls(nodes, f) ==
  extractCallsFrom(nodes, f, f + 1, [calls |-> <<>>, fanOut |-> 0])

(***************************************************************************)
(* The name of a function expression or arrow function (lines 85-137).     *)
(* The walk starts at node.parent and follows .parent.  By the time a      *)
(* nested function is visited, the .parent of every enclosing function     *)
(* node has been overwritten with that function's funcInfo (line 215),     *)
(* which matches no rule and has no .parent: the walk ends there.          *)
(***************************************************************************)
\* a faulty variant: the event-name argument is never looked for
NoLiteralArg(nodes, p, j) == 0

RECURSIVE FirstLiteralArg(_, _, _)
\* parent.arguments.find(arg => arg.type === 'Literal' && typeof arg.value === 'string')
FirstLiteralArg(nodes, p, j) ==
  IF j > Len(nodes) THEN 0
  ELSE IF nodes[j].parent = p /\ nodes[j].type = "Literal" THEN j
  ELSE FirstLiteralArg(nodes, p, j + 1)

anonymousName(c) == "anonymous_" \o ToString(c)

RECURSIVE resolveName(_, _, _, _)
resolveName(nodes, i, p, c) ==
  IF p = 0 THEN [name |-> anonymousName(c), counter |-> c + 1]
  ELSE
    LET a == nodes[p]
        eventArg == FirstLiteralArg(nodes, p, p + 1)
    IN  IF /\ a.type = "CallExpression"
           /\ nodes[i].parent = p
           /\ a.calleeType = "MemberExpression"
           /\ a.name # NoName
           /\ a.object # NoName
        THEN IF eventArg # 0
             THEN [name |-> a.object \o "." \o a.name \o "_" \o nodes[eventArg].name,
                   counter |-> c]
             ELSE [name |-> a.object \o "." \o a.name \o "_handler", counter |-> c]
        ELSE IF a.type \in {"VariableDeclarator", "Property"}
        THEN IF a.name # NoName
             THEN [name |-> a.name, counter |-> c]
             ELSE [name |-> anonymousName(c), counter |-> c + 1]
        ELSE IF IsFunc(a)
        THEN [name |-> anonymousName(c), counter |-> c + 1]
        ELSE resolveName(nodes, i, a.parent, c)

\* lines 69-155: the funcInfo of function node i, and the counter after it
makeFuncInfo(nodes, path, i, c) ==
  LET n == nodes[i]
      r == IF n.type = "FunctionDeclaration"
           THEN [name |-> n.name, counter |-> c]
           ELSE resolveName(nodes, i, n.parent, c)
      x == extractCalls(nodes, i)
  IN  [info |-> [name   |-> r.name,
                 file   |-> path,
                 module |-> Basename(path),
                 params |-> n.params,
                 calls  |-> x.calls,
                 fanIn  |-> 0,
                 fanOut |-> x.fanOut,
                 line   |-> n.line,
                 type   |-> IF n.type = "ArrowFunctionExpression"
                            THEN "arrow" ELSE "function"],
       counter |-> r.counter]

(***************************************************************************)
(* traverse (lines 62-236), node by node in pre-order.  acc.functions is   *)
(* what the walk pushes to fileInfo.functions, acc.calls what it pushes to *)
(* fileInfo.calls (and, with the path, to this.calls).  A call through a   *)
(* member access is seen twice: as the CallExpression and, one level down, *)
(* as its callee MemberExpression.                                         *)
(***************************************************************************)
callRecords(n) ==
  LET calleeName == getCalleeName(n)
      rec(t) == [name |-> calleeName, line |-> n.line, type |-> t]
  IN  IF calleeName = NoName \/ calleeName \in {"require", "console"} THEN <<>>
      ELSE IF n.calleeType = "MemberExpression"
      THEN <<rec("CallExpression"), rec("MemberExpression")>>
      ELSE <<rec("CallExpression")>>

traverseStep(nodes, path, i, acc) ==
  LET n == nodes[i]
  IN  IF IsFunc(n)
      THEN LET m == makeFuncInfo(nodes, path, i, acc.counter)
               existingFunc ==
                 \E k \in 1..Len(acc.functions) :
                   /\ acc.functions[k].name = m.info.name
                   /\ acc.functions[k].line = m.info.line
           IN  [acc EXCEPT !.counter = m.counter,
                           !.functions = IF existingFunc THEN @
                                         ELSE Append(@, m.info)]
      ELSE IF n.type = "CallExpression"
      THEN [acc EXCEPT !.calls = @ \o callRecords(n)]
      ELSE acc

(***************************************************************************)
(* traverse and extractCalls recurse once per level of nesting.  A         *)
(* DeepExpression node stands for an expression nested deeper than the     *)
(* engine's call stack lets them descend (a sum of thousands of terms, a   *)
(* long chain of method calls): the walk that enters it throws RangeError. *)
(* Inside a function body that walk is extractCalls, run when traverse     *)
(* visits the function (line 160); at file top level it is traverse        *)
(* itself.  throwsAt is the node whose visit throws, 0 if none does.       *)
(***************************************************************************)
throwPoint(nodes, d) == IF EnclFn(nodes, d) = 0 THEN d ELSE EnclFn(nodes, d)

throwsAt(nodes) ==
  LET points == {throwPoint(nodes, d) :
                   d \in {j \in 1..Len(nodes) : nodes[j].type = "DeepExpression"}}
  IN  IF points = {} THEN 0
      ELSE CHOOSE t \in points : \A u \in points : t <= u

\* the last node the walk visits without throwing
lastVisited(nodes) ==
  IF throwsAt(nodes) = 0 THEN Len(nodes) ELSE throwsAt(nodes) - 1

RECURSIVE traverse(_, _, _, _)
traverse(nodes, path, i, acc) ==
  IF i > lastVisited(nodes) THEN acc
  ELSE traverse(nodes, path, i + 1, traverseStep(nodes, path, i, acc))

\* what the walk has pushed when it returns or throws
analyzeAST(nodes, path) ==
  LET w == traverse(nodes, path, 1, [functions |-> <<>>, calls |-> <<>>, counter |-> 0])
  IN  [functions |-> w.functions, calls |-> w.calls, counter |-> w.counter,
       threw |-> throwsAt(nodes) # 0]

(***************************************************************************)
(* The analyzer's tables.  A funcInfo object is heap[id]; fileInfo         *)
(* .functions and this.functions hold object references (ids), so a write  *)
(* to func.fanIn through one is seen through the other.  A Map is the      *)
(* sequence of its entries in insertion order.                             *)
(***************************************************************************)
functionKey(path, f) == path \o "::" \o f.name \o "_" \o ToString(f.line)

MapHas(m, k) == \E i \in 1..Len(m) : m[i].key = k
MapValues(m) == {m[i].val : i \in 1..Len(m)}

\* Map.set: an existing key keeps its place and takes the new value
MapSet(m, k, v) ==
  IF MapHas(m, k)
  THEN [i \in 1..Len(m) |-> IF m[i].key = k THEN [key |-> k, val |-> v] ELSE m[i]]
  ELSE Append(m, [key |-> k, val |-> v])

RECURSIVE registerAll(_, _, _, _, _)
\* lines 166-171 for the functions the walk kept: ids base+1, base+2, ...
registerAll(reg, path, fns, base, k) ==
  IF k > Len(fns) THEN reg
  ELSE LET key == functionKey(path, fns[k])
       IN  registerAll(IF MapHas(reg, key) THEN reg
                       ELSE Append(reg, [key |-> key, val |-> base + k]),
                       path, fns, base, k + 1)

newFileInfo(path, ids, fileCalls) ==
  [path |-> path, name |-> Basename(path), functions |-> ids,
   calls |-> fileCalls, fanIn |-> 0, fanOut |-> 0, cohesion |-> [num |-> 0, den |-> 1]]

(***************************************************************************)
(* calculateFanInFanOut, function level (lines 335-400).                   *)
(***************************************************************************)
callerKey(f) == f.name \o "_" \o ToString(f.line)

RECURSIVE uniqueFrom(_, _, _, _)
\* lines 351-359: module.functions without later entries of a seen name_line
uniqueFrom(h, ids, k, acc) ==
  IF k > Len(ids) THEN acc
  ELSE uniqueFrom(h, ids, k + 1,
         IF \E j \in 1..Len(acc) : callerKey(h[acc[j]]) = callerKey(h[ids[k]])
         THEN acc ELSE Append(acc, ids[k]))

uniqueFunctions(h, m) == SeqToSet(uniqueFrom(h, m.functions, 1, <<>>))

\* lines 362-382: the caller keys the module pass adds for func2
intraCallers(h, mods, func2) ==
  {callerKey(h[func1]) :
     func1 \in {f \in 1..Len(h) :
                  \E i \in 1..Len(mods) :
                    /\ f \in uniqueFunctions(h, mods[i].val)
                    /\ func2 \in uniqueFunctions(h, mods[i].val)
                    /\ f # func2
                    /\ InSeq(h[func2].name, h[f].calls)}}

\* a faulty variant: one caller key per call record instead of one per file
crossCallersPerCall(h, cs, func) ==
  {cs[k].from \o "#" \o ToString(k) :
     k \in {j \in 1..Len(cs) : cs[j].from # h[func].file /\ cs[j].to = h[func].name}}

\* lines 387-400: the caller keys the pass over this.calls adds for func
crossCallers(h, cs, func) ==
  {cs[k].from : k \in {j \in 1..Len(cs) :
                         cs[j].from # h[func].file /\ cs[j].to = h[func].name}}

\* fanInMap.get(func2) is undefined, and callers.has throws, when a function
\* listed in a module is not a value of this.functions
fanInThrows(h, mods, reg) ==
  \E func2 \in 1..Len(h) :
    /\ func2 \notin MapValues(reg)
    /\ intraCallers(h, mods, func2) # {}

functionFanIn(h, mods, reg, cs, f) ==
  IF f \in MapValues(reg)
  THEN Cardinality(intraCallers(h, mods, f) \cup crossCallers(h, cs, f))
  ELSE h[f].fanIn

(***************************************************************************)
(* calculateFanInFanOut, module level (lines 402-449).                     *)
(***************************************************************************)
moduleFunctionNames(h, m) == {h[m.functions[k]].name : k \in 1..Len(m.functions)}

isExternalCall(h, m, c) ==
  /\ c.name \notin moduleFunctionNames(h, m)
  /\ ~\E part \in SeqToSet(SplitDot(c.name)) : part \in moduleFunctionNames(h, m)

moduleFanOut(h, m) ==
  Cardinality({SplitDot(m.calls[k].name)[1] :
                 k \in {j \in 1..Len(m.calls) : isExternalCall(h, m, m.calls[j])}})

callMatches(to, name) ==
  \/ to = name
  \/ Includes(to, name)
  \/ (Includes(to, ".") /\ SplitDot(to)[2] = name)

moduleFanInCount(h, m, path, cs) ==
  Cardinality({<<j, k>> \in (1..Len(cs)) \X (1..Len(m.functions)) :
                 /\ cs[j].from # path
                 /\ callMatches(cs[j].to, h[m.functions[k]].name)})

internalCalls(h, m) ==
  {h[m.functions[a]].name \o "->" \o h[m.functions[b]].name :
     <<a, b>> \in {pr \in (1..Len(m.functions)) \X (1..Len(m.functions)) :
                     /\ m.functions[pr[1]] # m.functions[pr[2]]
                     /\ \E c \in SeqToSet(h[m.functions[pr[1]]].calls) :
                          \/ c = h[m.functions[pr[2]]].name
                          \/ Includes(c, h[m.functions[pr[2]]].name)}}

\* a faulty variant: the module's count is added to the fanIn it already has
moduleFanInAccumulated(h, m, path, cs) ==
  m.fanIn + moduleFanInCount(h, m, path, cs) + Cardinality(internalCalls(h, m))

moduleFanIn(h, m, path, cs) ==
  moduleFanInCount(h, m, path, cs) + Cardinality(internalCalls(h, m))

(***************************************************************************)
(* Numbers.  A quotient (cohesion, an average) is kept as the fraction the *)
(* division is applied to; two fractions are the same number when their    *)
(* cross products agree.  Absent stands for a field the object lacks.      *)
(***************************************************************************)
Absent == -1
Frac(n, d) == [num |-> n, den |-> d]
NumEq(a, b) == a.num * b.den = b.num * a.den
\* a > n/d, for positive denominators
NumGt(a, n, d) == a.num * d > n * a.den

RECURSIVE SumSeq(_)
SumSeq(s) == IF s = <<>> THEN 0 ELSE Head(s) + SumSeq(Tail(s))

(***************************************************************************)
(* calculateCohesion (lines 538-635).                                      *)
(***************************************************************************)
funcDeps(f) ==
  {IF Includes(f.calls[k], ".") THEN SplitDot(f.calls[k])[1] ELSE f.calls[k] :
     k \in 1..Len(f.calls)}

\* a faulty variant: a pair counts only when each function calls the other
callsEachOtherMutual(func1, func2) ==
  /\ \E c \in SeqToSet(func1.calls) : c = func2.name \/ Includes(c, func2.name)
  /\ \E c \in SeqToSet(func2.calls) : c = func1.name \/ Includes(c, func1.name)

callsEachOther(func1, func2) ==
  \/ \E c \in SeqToSet(func1.calls) : c = func2.name \/ Includes(c, func2.name)
  \/ \E c \in SeqToSet(func2.calls) : c = func1.name \/ Includes(c, func1.name)

\* typeof x === 'string'
typeofString(x) == x \in STRING

\* lines 599-603; every entry of params is a string (lines 75-78, 143-148)
sharedParams(func1, func2) ==
  \/ \E p \in SeqToSet(func1.params) : InSeq(p, func2.params)
  \/ \E p \in SeqToSet(func1.params) :
       \E p2 \in SeqToSet(func2.params) :
         p = p2 \/ (typeofString(p) /\ typeofString(p2))

sharedDeps(func1, func2) == funcDeps(func1) \cap funcDeps(func2) # {}

similarData(func1, func2) ==
  \/ Includes(func1.name, "room") /\ Includes(func2.name, "room")
  \/ Includes(func1.name, "canvas") /\ Includes(func2.name, "canvas")
  \/ Includes(func1.name, "user") /\ Includes(func2.name, "user")

cohesivePair(func1, func2) ==
  \/ callsEachOther(func1, func2)
  \/ sharedParams(func1, func2)
  \/ sharedDeps(func1, func2)
  \/ similarData(func1, func2)

cohesionRating(c) ==
  IF NumGt(c, 7, 10) THEN "High" ELSE IF NumGt(c, 3, 10) THEN "Medium" ELSE "Low"

\* a faulty variant: a module without pairs scores 0
trivialEntryZero(m, reason) ==
  [module |-> m.name, cohesion |-> Frac(0, 1), reason |-> reason,
   sharedReferences |-> Absent, totalPairs |-> Absent, rating |-> NoName]

\* lines 543-547 and 552-556: the entry of a module with no pair of functions
trivialEntry(m, reason) ==
  [module |-> m.name, cohesion |-> Frac(1, 1), reason |-> reason,
   sharedReferences |-> Absent, totalPairs |-> Absent, rating |-> NoName]

\* the entry calculateCohesion pushes for module m
cohesionEntry(h, m) ==
  LET n == Len(m.functions)
      pairs == {pr \in (1..n) \X (1..n) : pr[1] < pr[2]}
      sharedReferences ==
        Cardinality({pr \in pairs :
                       cohesivePair(h[m.functions[pr[1]]], h[m.functions[pr[2]]])})
      totalPossiblePairs == Cardinality(pairs)
      cohesion == IF totalPossiblePairs > 0
                  THEN Frac(sharedReferences, totalPossiblePairs)
                  ELSE Frac(1, 1)
  IN  IF n = 0
      THEN trivialEntry(m, "No functions to measure")
      ELSE IF n = 1
      THEN trivialEntry(m, "Single function module")
      ELSE [module |-> m.name, cohesion |-> cohesion, reason |-> NoName,
            sharedReferences |-> sharedReferences,
            totalPairs |-> totalPossiblePairs, rating |-> cohesionRating(cohesion)]

\* module.cohesion after calculateCohesion: not written for an empty module
storedCohesion(h, m) ==
  IF Len(m.functions) = 0 THEN m.cohesion ELSE cohesionEntry(h, m).cohesion

(***************************************************************************)
(* calculateInformationFlowComplexity (lines 637-666).                     *)
(***************************************************************************)
\* a faulty variant: the flows are added, not multiplied
ifcValueSum(func) ==
  (func.fanIn + func.fanOut) * (func.fanIn + func.fanOut)

ifcValue(func) ==
  IF func.fanIn > 0 /\ func.fanOut > 0
  THEN (func.fanIn * func.fanOut) * (func.fanIn * func.fanOut)
  ELSE 0

ifcRating(func) ==
  LET ifc == ifcValue(func)
  IN  IF ifc > 100 THEN "Very High"
      ELSE IF ifc > 25 THEN "High"
      ELSE IF ifc > 5 THEN "Medium"
      ELSE IF func.fanIn = 0 /\ func.fanOut = 0 THEN "None"
      ELSE "Low"

ifcEntry(func) ==
  [function |-> func.name, module |-> func.module, fanIn |-> func.fanIn,
   fanOut |-> func.fanOut, informationFlowComplexity |-> ifcValue(func),
   rating |-> ifcRating(func)]

(***************************************************************************)
(* calculateCoupling (lines 452-536).  path1 < path2 compares the strings  *)
(* by code unit; CodeOrder lists the characters in code-unit order.        *)
(***************************************************************************)
CodeOrder == "-./0123456789:>ABCDEFGHIJKLMNOPQRSTUVWXYZ_abcdefghijklmnopqrstuvwxyz"
CharCode(ch) == IndexOfFrom(CodeOrder, ch, 1)

RECURSIVE StrLessFrom(_, _, _)
StrLessFrom(a, b, i) ==
  IF i > Len(b) THEN FALSE
  ELSE IF i > Len(a) THEN TRUE
  ELSE IF SubSeq(a, i, i) = SubSeq(b, i, i) THEN StrLessFrom(a, b, i + 1)
  ELSE CharCode(SubSeq(a, i, i)) < CharCode(SubSeq(b, i, i))

StrLess(a, b) == StrLessFrom(a, b, 1)

groupNames == <<"room-management", "socket-handlers", "canvas-management">>
functionalGroups ==
  <<{"generateRoomId", "create", "join"},
    {"connection", "create-room", "join-room", "draw", "canvas-state", "disconnect"},
    {"canvas-state", "canvasState"}>>

\* lines 479-488
groupCallsBetween(h, m, group1, group2) ==
  SumSeq([k \in 1..Len(m.functions) |->
            LET func == h[m.functions[k]]
            IN  IF \E g \in group1 : Includes(func.name, g)
                THEN Cardinality({c \in 1..Len(func.calls) :
                                    \E g \in group2 : Includes(func.calls[c], g)})
                ELSE 0])

\* lines 511-514
moduleCallsBetween(cs, e1, e2) ==
  Cardinality({k \in 1..Len(cs) :
                 \/ cs[k].from = e1.key /\ Includes(cs[k].to, e2.val.name)
                 \/ cs[k].from = e2.key /\ Includes(cs[k].to, e1.val.name)})

couplingPair(name1, name2, n) ==
  [module1 |-> name1, module2 |-> name2, calls |-> n,
   type |-> IF n > 5 THEN "tight" ELSE "loose"]

\* the index pairs the two nested loops visit, in the order they visit them
RECURSIVE loopPairs(_, _, _, _)
loopPairs(n, i, j, upper) ==
  IF i > n THEN <<>>
  ELSE IF j > n THEN loopPairs(n, i + 1, IF upper THEN i + 2 ELSE 1, upper)
  ELSE <<(<<i, j>>)>> \o loopPairs(n, i, j + 1, upper)

RECURSIVE keepCoupled(_)
keepCoupled(ps) ==
  IF ps = <<>> THEN <<>>
  ELSE (IF Head(ps).calls > 0 THEN <<Head(ps)>> ELSE <<>>) \o keepCoupled(Tail(ps))

couplingPairs(h, mods, cs) ==
  IF Len(mods) = 1
  THEN LET ps == loopPairs(Len(groupNames), 1, 2, TRUE)
       IN  keepCoupled([k \in 1..Len(ps) |->
             couplingPair(groupNames[ps[k][1]], groupNames[ps[k][2]],
                          groupCallsBetween(h, mods[1].val,
                                            functionalGroups[ps[k][1]],
                                            functionalGroups[ps[k][2]]))])
  ELSE LET ps == loopPairs(Len(mods), 1, 1, FALSE)
       IN  keepCoupled([k \in 1..Len(ps) |->
             IF StrLess(mods[ps[k][1]].key, mods[ps[k][2]].key)
             THEN couplingPair(mods[ps[k][1]].val.name, mods[ps[k][2]].val.name,
                               moduleCallsBetween(cs, mods[ps[k][1]], mods[ps[k][2]]))
             ELSE couplingPair(NoName, NoName, 0)])

calculateCoupling(h, mods, cs) ==
  LET ps == couplingPairs(h, mods, cs)
  IN  [tightCoupling |-> Cardinality({k \in 1..Len(ps) : ps[k].type = "tight"}),
       looseCoupling |-> Cardinality({k \in 1..Len(ps) : ps[k].type = "loose"}),
       couplingPairs |-> ps]

(***************************************************************************)
(* calculateProjectAverages and generateMetrics (lines 668-710), read      *)
(* after calculateFanInFanOut has written the heap.                        *)
(***************************************************************************)
calculateProjectAverages(h, reg) ==
  LET totalFanIn  == SumSeq([k \in 1..Len(reg) |-> h[reg[k].val].fanIn])
      totalFanOut == SumSeq([k \in 1..Len(reg) |-> h[reg[k].val].fanOut])
  IN  IF Len(reg) = 0
      THEN [avgFanIn |-> Frac(0, 1), avgFanOut |-> Frac(0, 1),
            totalFunctions |-> Absent, totalFanIn |-> Absent, totalFanOut |-> Absent]
      ELSE [avgFanIn |-> Frac(totalFanIn, Len(reg)),
            avgFanOut |-> Frac(totalFanOut, Len(reg)),
            totalFunctions |-> Len(reg),
            totalFanIn |-> totalFanIn, totalFanOut |-> totalFanOut]

functionMetric(func) ==
  [name |-> func.name, module |-> func.module, fanIn |-> func.fanIn,
   fanOut |-> func.fanOut, line |-> func.line]

metricsOf(h, mods, reg) ==
  [functionMetrics |-> [k \in 1..Len(reg) |-> functionMetric(h[reg[k].val])],
   projectAverages |-> calculateProjectAverages(h, reg),
   totalModules |-> Len(mods),
   totalFunctions |-> Len(reg)]

(***************************************************************************)
(* generateReport (lines 750-835).  The report is kept as its sections.    *)
(***************************************************************************)
\* toFixed(2), as the number of hundredths
toFixed2(a) == (200 * a.num + a.den) \div (2 * a.den)

\* lines 788-791: b sorts before a
sortsBefore(b, a) ==
  IF b.fanIn # a.fanIn THEN b.fanIn > a.fanIn ELSE b.fanOut > a.fanOut

RECURSIVE insertSorted(_, _)
insertSorted(sorted, x) ==
  IF sorted = <<>> THEN <<x>>
  ELSE IF sortsBefore(x, Head(sorted)) THEN <<x>> \o sorted
  ELSE <<Head(sorted)>> \o insertSorted(Tail(sorted), x)

RECURSIVE sortFunctions(_, _)
\* Array.prototype.sort with that comparator: stable
sortFunctions(rows, k) ==
  IF k = 0 THEN <<>> ELSE insertSorted(sortFunctions(rows, k - 1), rows[k])

reportRow(func) ==
  [name |-> IF Len(func.name) > 28 THEN SubSeq(func.name, 1, 25) \o "..."
            ELSE func.name,
   module |-> func.module, fanIn |-> func.fanIn, fanOut |-> func.fanOut]

\* metrics.projectAverages.totalFanIn.toString() on a missing field
reportThrows(m) == m.projectAverages.totalFanIn = Absent

reportText(m) ==
  LET sortedFunctions == sortFunctions(m.functionMetrics, Len(m.functionMetrics))
  IN  [summary |-> [totalModules |-> m.totalModules,
                    totalFunctions |-> m.totalFunctions,
                    totalFanIn |-> m.projectAverages.totalFanIn,
                    totalFanOut |-> m.projectAverages.totalFanOut,
                    avgFanIn |-> toFixed2(m.projectAverages.avgFanIn),
                    avgFanOut |-> toFixed2(m.projectAverages.avgFanOut)],
       functionTable |-> [k \in 1..Len(sortedFunctions) |->
                            reportRow(sortedFunctions[k])],
       sections |-> IF Len(m.functionMetrics) > 0
                    THEN <<"PROJECT SUMMARY", "FUNCTION-LEVEL METRICS", "INTERPRETATION">>
                    ELSE <<"PROJECT SUMMARY", "INTERPRETATION">>]

(***************************************************************************)
(* The state after `new InformationFlowAnalyzer()` (lines 20-26) and       *)
(* after discovery (lines 838-849).                                        *)
(***************************************************************************)
NoReturn == [op |-> "none", value |-> <<>>]
NoMetrics == [functionMetrics |-> <<>>,
              projectAverages |-> calculateProjectAverages(<<>>, <<>>),
              totalModules |-> Absent, totalFunctions |-> Absent]
NoReport == <<>>

(***************************************************************************)
(* The relay server (src/server/server.js).  rooms is the Map of line 16:  *)
(* rooms[r].users is the Set, rooms[r].userNames the Map from socket id to *)
(* name (a function on its keys).  generateRoomId draws six random         *)
(* characters, so it may return an id the Map already holds.  socket.io    *)
(* takes a socket out of the rooms it joined when it disconnects.          *)
(***************************************************************************)
Sockets == 1..MaxSockets              \* socket.id of the connections (line 30)
RoomIds == {"A1B2C3", "X7Y8Z9"}       \* values of generateRoomId (lines 19-21)
UserNames == {"ann", "bob"}           \* data.userName (lines 34, 50)
CanvasStates == {"", "sketch"}        \* data.canvasState (line 99)

\* new Map() (line 16), Map.delete and Map.set
NoRooms == [r \in {} |-> 0]
MapDelete(m, k) == [x \in DOMAIN m \ {k} |-> m[x]]
MapPut(m, k, v) == [x \in DOMAIN m \cup {k} |-> IF x = k THEN v ELSE m[x]]

\* the sockets an emit to the socket.io room r reaches
inRoom(r) == {t \in Sockets : r \in joined[t]}

\* the server after server.listen (lines 16, 140-142): no socket, no room
listening ==
  /\ sockets = [t \in Sockets |-> "unborn"]
  /\ rooms = NoRooms
  /\ joined = [t \in Sockets |-> {}]
  /\ sent = {}

constructor ==
  /\ heap = <<>>
  /\ modules = <<>>
  /\ functions = <<>>
  /\ calls = <<>>

started ==
  /\ constructor
  /\ pc = "editing"
  /\ allFiles = <<>>
  /\ idx = 0
  /\ metrics = NoMetrics
  /\ ret = NoReturn
  /\ reportFile = NoReport
  /\ exitCode = -1
  /\ log = <<>>

\* a faulty variant: the script ends with status 0 when nothing was discovered
ExitNoFilesSuccess ==
  /\ pc = "discovered"
  /\ Len(allFiles) = 0
  /\ log' = Append(log, "No JavaScript files found!")
  /\ pc' = "exited"
  /\ exitCode' = 0
  /\ UNCHANGED <<relay, vocabulary, disk, allFiles, idx, heap, modules, functions, calls, metrics,
                 ret, reportFile>>

(***************************************************************************)
(* main, lines 851-854: nothing was discovered.                            *)
(***************************************************************************)
ExitNoFiles ==
  /\ pc = "discovered"
  /\ Len(allFiles) = 0
  /\ log' = Append(log, "No JavaScript files found!")
  /\ pc' = "exited"
  /\ exitCode' = 1
  /\ UNCHANGED <<relay, vocabulary, disk, allFiles, idx, heap, modules, functions, calls, metrics,
                 ret, reportFile>>

(***************************************************************************)
(* analyzeFile (lines 28-57), called by main's loop (lines 857-860) on the *)
(* next discovered path.  A text esprima rejects throws before analyzeAST  *)
(* runs; a walk that throws has pushed to this.functions and this.calls    *)
(* (lines 170, 205) and leaves line 52 unreached.  The catch block is      *)
(* empty.                                                                  *)
(***************************************************************************)
\* the analyzer's tables after analyzeFile(filePath), code being the file's text
analyzeFile(T, filePath, code) ==
  LET walk == analyzeAST(code.nodes, filePath)
      ids  == [k \in 1..Len(walk.functions) |-> Len(T.heap) + k]
  IN  IF code.parses
      THEN [heap      |-> T.heap \o walk.functions,
            functions |-> registerAll(T.functions, filePath, walk.functions,
                                      Len(T.heap), 1),
            calls     |-> T.calls \o [k \in 1..Len(walk.calls) |->
                                        [from |-> filePath, to |-> walk.calls[k].name,
                                         line |-> walk.calls[k].line]],
            modules   |-> IF walk.threw THEN T.modules
                          ELSE MapSet(T.modules, filePath,
                                      newFileInfo(filePath, ids, walk.calls))]
      ELSE T

Tables == [heap |-> heap, functions |-> functions, calls |-> calls, modules |-> modules]

AnalyzeFile ==
  /\ pc = "discovered"
  /\ idx < Len(allFiles)
  /\ LET T == analyzeFile(Tables, allFiles[idx + 1], disk[idx + 1])
     IN  /\ heap' = T.heap
         /\ functions' = T.functions
         /\ calls' = T.calls
         /\ modules' = T.modules
  /\ idx' = idx + 1
  /\ log' = IF idx = 0 THEN log \o <<"found", allFiles[idx + 1]>>
            ELSE Append(log, allFiles[idx + 1])
  /\ UNCHANGED <<relay, vocabulary, disk, allFiles, pc, metrics, ret, reportFile, exitCode>>

(***************************************************************************)
(* generateMetrics (lines 690-710), called by main at line 864 once the    *)
(* loop has ended: calculateFanInFanOut, then the averages and the list.   *)
(***************************************************************************)
\* a faulty variant: aggregation also recounts fanOut, from the call list
fanInAndFanOutWritten(h, mods, reg, cs) ==
  [f \in 1..Len(h) |-> [h[f] EXCEPT !.fanIn = functionFanIn(h, mods, reg, cs, f),
                                    !.fanOut = Len(h[f].calls)]]

fanInWritten(h, mods, reg, cs) ==
  [f \in 1..Len(h) |-> [h[f] EXCEPT !.fanIn = functionFanIn(h, mods, reg, cs, f)]]

moduleFansWritten(h, mods, cs) ==
  [i \in 1..Len(mods) |->
     [mods[i] EXCEPT !.val.fanOut = moduleFanOut(h, mods[i].val),
                     !.val.fanIn = moduleFanIn(h, mods[i].val, mods[i].key, cs)]]

\* a faulty variant: aggregation does not wait for the end of the loop
GenerateMetricsEarly ==
  /\ pc = "discovered"
  /\ Len(allFiles) > 0
  /\ heap' = fanInWritten(heap, modules, functions, calls)
  /\ modules' = moduleFansWritten(heap, modules, calls)
  /\ metrics' = metricsOf(heap', modules', functions)
  /\ pc' = "report"
  /\ log' = Append(log, "calculating")
  /\ UNCHANGED <<relay, vocabulary, disk, allFiles, idx, functions, calls, ret, reportFile,
                 exitCode>>

GenerateMetrics ==
  /\ pc = "discovered"
  /\ Len(allFiles) > 0
  /\ idx = Len(allFiles)
  /\ IF fanInThrows(heap, modules, functions)
     THEN /\ pc' = "exited"
          /\ exitCode' = 1
          /\ UNCHANGED <<heap, modules, metrics>>
     ELSE /\ heap' = fanInWritten(heap, modules, functions, calls)
          /\ modules' = moduleFansWritten(heap, modules, calls)
          /\ metrics' = metricsOf(heap', modules', functions)
          /\ pc' = "report"
          /\ UNCHANGED exitCode
  /\ log' = Append(log, "calculating")
  /\ UNCHANGED <<relay, vocabulary, disk, allFiles, idx, functions, calls, ret, reportFile>>

(***************************************************************************)
(* generateReport (line 865): sorts metrics.functionMetrics in place,      *)
(* writes the file and prints it; the script then ends.                    *)
(***************************************************************************)
GenerateReport ==
  /\ pc = "report"
  /\ IF reportThrows(metrics)
     THEN /\ exitCode' = 1
          /\ UNCHANGED <<metrics, reportFile, log>>
     ELSE /\ exitCode' = 0
          /\ metrics' = [metrics EXCEPT !.functionMetrics =
                           sortFunctions(@, Len(@))]
          /\ reportFile' = <<reportText(metrics)>>
          /\ log' = log \o <<"report", "saved">>
  /\ pc' = "exited"
  /\ ret' = NoReturn
  /\ UNCHANGED <<relay, vocabulary, disk, allFiles, idx, heap, modules, functions, calls>>

(***************************************************************************)
(* The metric methods main does not call, invoked on the analyzer once the *)
(* call graph has been aggregated.                                         *)
(***************************************************************************)
CalculateCohesion ==
  /\ pc = "report"
  /\ ret.op = NoReturn.op
  /\ ret' = [op |-> "calculateCohesion",
             value |-> [i \in 1..Len(modules) |-> cohesionEntry(heap, modules[i].val)]]
  /\ modules' = [i \in 1..Len(modules) |->
                   [modules[i] EXCEPT !.val.cohesion = storedCohesion(heap, modules[i].val)]]
  /\ UNCHANGED <<relay, vocabulary, disk, allFiles, pc, idx, heap, functions, calls, metrics,
                 reportFile, exitCode, log>>

CalculateCoupling ==
  /\ pc = "report"
  /\ ret.op = NoReturn.op
  /\ ret' = [op |-> "calculateCoupling",
             value |-> calculateCoupling(heap, modules, calls)]
  /\ UNCHANGED <<relay, vocabulary, disk, allFiles, pc, idx, heap, modules, functions, calls, metrics,
                 reportFile, exitCode, log>>

CalculateInformationFlowComplexity ==
  /\ pc = "report"
  /\ ret.op = NoReturn.op
  /\ ret' = [op |-> "calculateInformationFlowComplexity",
             value |-> [k \in 1..Len(functions) |-> ifcEntry(heap[functions[k].val])]]
  /\ UNCHANGED <<relay, vocabulary, disk, allFiles, pc, idx, heap, modules, functions, calls, metrics,
                 reportFile, exitCode, log>>


(***************************************************************************)
(* Source files.  A label is a node without its place.  Before the script  *)
(* is started the files are written, one after the other, node by node in  *)
(* pre-order, node i on line i; a node hangs under the Program root, or    *)
(* under the last node or one of its ancestors if that is a node given     *)
(* children (Open).                                                        *)
(***************************************************************************)
Label(type, name, calleeType, object, params) ==
  [type |-> type, name |-> name, calleeType |-> calleeType, object |-> object,
   params |-> params]

FuncDecl(name, params) == Label("FunctionDeclaration", name, NoName, NoName, params)
FuncExpr(params) == Label("FunctionExpression", NoName, NoName, NoName, params)
Arrow(params) == Label("ArrowFunctionExpression", NoName, NoName, NoName, params)
Call(name) == Label("CallExpression", name, "Identifier", NoName, <<>>)
MemberCall(object, name) ==
  Label("CallExpression", name, "MemberExpression", object, <<>>)
Literal(value) == Label("Literal", value, NoName, NoName, <<>>)
Declarator(name) == Label("VariableDeclarator", name, NoName, NoName, <<>>)
Property(name) == Label("Property", name, NoName, NoName, <<>>)
TooDeep == Label("DeepExpression", NoName, NoName, NoName, <<>>)

GraphLabels ==
  {FuncDecl("helper", <<>>), FuncDecl("generateRoomId", <<>>), Call("helper"),
   Call("setTimeout"), MemberCall(NoName, "helper")}

\* callbacks and the syntax they are bound through
HandlerLabels ==
  {FuncExpr(<<>>), Arrow(<<>>), Declarator("handler"), Property("onDraw"),
   MemberCall("socket", "on"), MemberCall(NoName, "on"), Call("helper"),
   Literal("draw")}

\* functions that differ in name, parameters and dependencies
ModuleLabels ==
  {FuncDecl("helper", <<>>), FuncDecl("generateRoomId", <<"a">>),
   FuncDecl("joinroom", <<"b">>), FuncDecl("leaveroom", <<"a">>),
   Call("helper"), MemberCall("socket", "emit")}

\* functions, a call, and an expression the walk cannot get through
FaultLabels ==
  {FuncDecl("helper", <<>>), FuncDecl("generateRoomId", <<>>), Call("helper"), TooDeep}

\* definitions and callbacks of a file whose text is one line
MinifiedLabels ==
  {FuncDecl("helper", <<>>), FuncExpr(<<>>), Arrow(<<>>), MemberCall("socket", "on"),
   Call("helper")}

\* functions of two functional groups, and calls of them
GroupLabels ==
  {FuncDecl("generateRoomId", <<>>), FuncDecl("draw", <<>>), Call("generateRoomId"),
   Call("draw")}

Vocabularies ==
  {"graph", "handlers", "module", "faults", "ratings", "minified", "groups"}
Labels ==
  [graph |-> GraphLabels, handlers |-> HandlerLabels, module |-> ModuleLabels,
   faults |-> FaultLabels, ratings |-> {Call("helper")}, minified |-> MinifiedLabels,
   groups |-> GroupLabels]
Open ==
  [graph    |-> FunctionTypes,
   handlers |-> FunctionTypes \cup {"CallExpression", "VariableDeclarator", "Property"},
   module   |-> FunctionTypes,
   faults   |-> FunctionTypes,
   ratings  |-> FunctionTypes,
   minified |-> FunctionTypes \cup {"CallExpression"},
   groups   |-> FunctionTypes]
FileLimit ==
  [graph |-> MaxFiles, handlers |-> MaxHandlerFiles, module |-> MaxModuleFiles,
   faults |-> MaxFiles, ratings |-> 1, minified |-> 1, groups |-> MaxFiles]

\* node.loc.start.line of the next node written after the nodes t
nextLine(t) == IF vocabulary = "minified" THEN 1 ELSE Len(t) + 1

RECURSIVE OpenParents(_, _, _)
OpenParents(O, t, i) ==
  IF i = 0 THEN {0}
  ELSE (IF t[i].type \in O THEN {i} ELSE {}) \cup OpenParents(O, t, t[i].parent)

Parsed(t) == [parses |-> TRUE, nodes |-> t]
Unparseable == [parses |-> FALSE, nodes |-> <<>>]

Paths ==
  <<"server/server.js", "client/white_board_pranjal/app/layout.js",
    "client/white_board_pranjal/app/page.js">>

TotalNodes == SumSeq([k \in 1..Len(disk) |-> Len(disk[k].nodes)])

NewFile ==
  /\ pc = "editing"
  /\ Len(disk) < FileLimit[vocabulary]
  /\ \E content \in {Parsed(<<>>), Unparseable} : disk' = Append(disk, content)
  /\ UNCHANGED <<relay, vocabulary, allFiles, pc, idx, heap, modules, functions, calls,
                 metrics, ret, reportFile, exitCode, log>>

WriteNode ==
  /\ pc = "editing"
  /\ Len(disk) > 0
  /\ disk[Len(disk)].parses
  /\ TotalNodes < MaxNodes
  /\ LET t == disk[Len(disk)].nodes
     IN  \E l \in Labels[vocabulary], p \in OpenParents(Open[vocabulary], t, Len(t)) :
           disk' = [disk EXCEPT ![Len(disk)] =
                      Parsed(Append(t, Node(l.type, p, l.name, l.calleeType,
                                            l.object, l.params, nextLine(t))))]
  /\ UNCHANGED <<relay, vocabulary, allFiles, pc, idx, heap, modules, functions, calls,
                 metrics, ret, reportFile, exitCode, log>>

(***************************************************************************)
(* main, lines 838-849: the script starts; findJSFiles (lines 713-744)     *)
(* returns the paths of the files on disk in directory order.              *)
(***************************************************************************)
findJSFiles == [k \in 1..Len(disk) |-> Paths[k]]

Discover ==
  /\ pc = "editing"
  /\ allFiles' = findJSFiles
  /\ log' = Append(log, "analyzing")
  /\ pc' = "discovered"
  /\ UNCHANGED <<relay, vocabulary, disk, idx, heap, modules, functions, calls, metrics,
                 ret, reportFile, exitCode>>

InitWith(v) ==
  /\ vocabulary = v
  /\ disk = <<>>
  /\ started
  /\ listening

Init == \E v \in Vocabularies : InitWith(v)
InitGraph == InitWith("graph")
InitHandlers == InitWith("handlers")
InitModule == InitWith("module")
InitFaults == InitWith("faults")
InitMinified == InitWith("minified")
InitGroups == InitWith("groups")

(***************************************************************************)
(* A project written to give one function chosen flows: the file           *)
(*   function helper(){ callee1(); ... callee<b>(); }                      *)
(*   function caller1(){ helper(); } ... function caller<a>(){ helper(); } *)
(***************************************************************************)
RatedFile(a, b) ==
  [i \in 1..(1 + b + 2 * a) |->
     IF i = 1 THEN Node("FunctionDeclaration", 0, "helper", NoName, NoName, <<>>, 1)
     ELSE IF i <= 1 + b
     THEN Node("CallExpression", 1, "callee" \o ToString(i - 1), "Identifier",
               NoName, <<>>, i)
     ELSE IF (i - 1 - b) % 2 = 1
     THEN Node("FunctionDeclaration", 0, "caller" \o ToString((i - b) \div 2),
               NoName, NoName, <<>>, i)
     ELSE Node("CallExpression", i - 1, "helper", "Identifier", NoName, <<>>, i)]

InitRatings ==
  /\ vocabulary = "ratings"
  /\ disk \in {<<>>} \cup {<<Parsed(RatedFile(a, b))>> : a \in 0..MaxFan, b \in 0..MaxFan}
  /\ started
  /\ listening

Next ==
  \/ NewFile
  \/ WriteNode
  \/ Discover
  \/ ExitNoFiles
  \/ AnalyzeFile
  \/ GenerateMetrics
  \/ GenerateReport
  \/ CalculateCohesion
  \/ CalculateCoupling
  \/ CalculateInformationFlowComplexity

Spec == Init /\ [][Next]_vars
SpecGraph == InitGraph /\ [][Next]_vars
SpecHandlers == InitHandlers /\ [][Next]_vars
SpecModule == InitModule /\ [][Next]_vars
SpecFaults == InitFaults /\ [][Next]_vars
SpecRatings == InitRatings /\ [][Next]_vars
SpecMinified == InitMinified /\ [][Next]_vars
SpecGroups == InitGroups /\ [][Next]_vars

(***************************************************************************)
(* The methods of InformationFlowAnalyzer called in sequences other than   *)
(* main's: a client of the class may call analyzeFile again on a path it   *)
(* has analyzed, and generateMetrics again on the tables it has aggregated.*)
(***************************************************************************)
\* the calls of analyzeFile so far, each announced on the console (line 858)
analysesDone ==
  Cardinality({i \in 1..Len(log) : \E k \in 1..Len(allFiles) : log[i] = allFiles[k]})

\* the client goes back to file k + 1: AnalyzeFile then calls analyzeFile on
\* the paths from there on once more
ReAnalyze ==
  /\ pc = "discovered"
  /\ idx = Len(allFiles)
  /\ analysesDone < MaxAnalyses
  /\ \E k \in 0..(idx - 1) : idx' = k
  /\ UNCHANGED <<relay, vocabulary, disk, allFiles, pc, heap, modules, functions, calls,
                 metrics, ret, reportFile, exitCode, log>>

GenerateMetricsAgain ==
  /\ pc = "report"
  /\ ret.op = NoReturn.op
  /\ ~fanInThrows(heap, modules, functions)
  /\ heap' = fanInWritten(heap, modules, functions, calls)
  /\ modules' = moduleFansWritten(heap, modules, calls)
  /\ metrics' = metricsOf(heap', modules', functions)
  /\ pc' = "report again"
  /\ UNCHANGED <<relay, vocabulary, disk, allFiles, idx, functions, calls, ret,
                 reportFile, exitCode, log>>

NextLibrary ==
  \/ Next
  \/ ReAnalyze
  \/ GenerateMetricsAgain

SpecLibrary == InitGroups /\ [][NextLibrary]_vars

(***************************************************************************)
(* The relay server's handlers, one action each; the analyzer is idle.     *)
(***************************************************************************)
analyzer == <<vocabulary, disk, allFiles, pc, idx, heap, modules, functions, calls,
              metrics, ret, reportFile, exitCode, log>>

\* io.on('connection') (lines 30-31)
Connect ==
  /\ \E t \in Sockets :
       /\ sockets[t] = "unborn"
       /\ sockets' = [sockets EXCEPT ![t] = "connected"]
  /\ sent' = {}
  /\ UNCHANGED <<analyzer, rooms, joined>>

\* socket.on('create-room') (lines 33-46)
CreateRoom ==
  /\ \E t \in Sockets, userName \in UserNames, roomId \in RoomIds :
       /\ sockets[t] = "connected"
       /\ rooms' = MapPut(rooms, roomId,
                          [users |-> {t}, canvasState |-> "",
                           userNames |-> MapPut(NoRooms, t, userName)])
       /\ joined' = [joined EXCEPT ![t] = @ \cup {roomId}]
       /\ sent' = {[event |-> "room-created", roomId |-> roomId, from |-> t,
                    to |-> {t}]}
  /\ UNCHANGED <<analyzer, sockets>>

\* socket.on('join-room') (lines 49-86)
JoinRoom ==
  /\ \E t \in Sockets, userName \in UserNames, roomId \in RoomIds :
       /\ sockets[t] = "connected"
       /\ IF roomId \notin DOMAIN rooms
          THEN /\ sent' = {[event |-> "room-error", roomId |-> roomId, from |-> t,
                            to |-> {t}]}
               /\ UNCHANGED <<rooms, joined>>
          ELSE /\ rooms' = [rooms EXCEPT
                              ![roomId].users = @ \cup {t},
                              ![roomId].userNames = MapPut(@, t, userName)]
               /\ joined' = [joined EXCEPT ![t] = @ \cup {roomId}]
               /\ sent' =
                    {[event |-> "room-joined", roomId |-> roomId, from |-> t,
                      to |-> {t}],
                     [event |-> "user-joined", roomId |-> roomId, from |-> t,
                      to |-> inRoom(roomId) \ {t}]}
                    \cup (IF rooms[roomId].canvasState # ""
                          THEN {[event |-> "canvas-state", roomId |-> roomId,
                                 from |-> t, to |-> {t}]}
                          ELSE {})
  /\ UNCHANGED <<analyzer, sockets>>

\* socket.on('draw') (lines 89-95)
Draw ==
  /\ \E t \in Sockets, roomId \in RoomIds :
       /\ sockets[t] = "connected"
       /\ sent' = IF roomId \in DOMAIN rooms
                  THEN {[event |-> "draw", roomId |-> roomId, from |-> t,
                         to |-> inRoom(roomId) \ {t}]}
                  ELSE {}
  /\ UNCHANGED <<analyzer, sockets, rooms, joined>>

\* socket.on('canvas-state-update') (lines 98-106)
CanvasStateUpdate ==
  /\ \E t \in Sockets, roomId \in RoomIds, canvasState \in CanvasStates :
       /\ sockets[t] = "connected"
       /\ IF roomId \in DOMAIN rooms
          THEN /\ rooms' = [rooms EXCEPT ![roomId].canvasState = canvasState]
               /\ sent' = {[event |-> "canvas-state", roomId |-> roomId, from |-> t,
                            to |-> inRoom(roomId)]}
          ELSE /\ sent' = {}
               /\ UNCHANGED rooms
  /\ UNCHANGED <<analyzer, sockets, joined>>

\* a faulty variant of the loop of disconnect: emptied rooms stay in the Map
leftRoomsKept(t) ==
  [r \in DOMAIN rooms |->
     IF t \in rooms[r].users
     THEN [rooms[r] EXCEPT !.users = @ \ {t}, !.userNames = MapDelete(@, t)]
     ELSE rooms[r]]

\* lines 113-136: the rooms Map after the loop of disconnect for socket t
leftRooms(t) ==
  [r \in {x \in DOMAIN rooms : rooms[x].users # {t}} |->
     IF t \in rooms[r].users
     THEN [rooms[r] EXCEPT !.users = @ \ {t}, !.userNames = MapDelete(@, t)]
     ELSE rooms[r]]

\* socket.on('disconnect') (lines 109-138)
Disconnect ==
  /\ \E t \in Sockets :
       /\ sockets[t] = "connected"
       /\ sockets' = [sockets EXCEPT ![t] = "gone"]
       /\ joined' = [joined EXCEPT ![t] = {}]
       /\ rooms' = leftRooms(t)
       /\ sent' = {[event |-> "user-left", roomId |-> r, from |-> t,
                    to |-> inRoom(r) \ {t}] :
                     r \in {x \in DOMAIN rooms : t \in rooms[x].users}}
  /\ UNCHANGED analyzer

NextServer ==
  \/ Connect
  \/ CreateRoom
  \/ JoinRoom
  \/ Draw
  \/ CanvasStateUpdate
  \/ Disconnect

SpecServer == InitGraph /\ [][NextServer]_vars

(***************************************************************************)
(* The whole of main's loop (lines 857-860) on a given disk, and the       *)
(* fan-in generateMetrics then writes, as functions of the disk.           *)
(***************************************************************************)
NoTables == [heap |-> <<>>, functions |-> <<>>, calls |-> <<>>, modules |-> <<>>]

RECURSIVE ingestFrom(_, _, _)
ingestFrom(d, k, T) ==
  IF k > Len(d) THEN T ELSE ingestFrom(d, k + 1, analyzeFile(T, Paths[k], d[k]))

ingest(d) == ingestFrom(d, 1, NoTables)

\* the funcInfo objects of the definition on a line of a file
recordsAt(h, path, line) ==
  {f \in 1..Len(h) : h[f].file = path /\ h[f].line = line}

fanInOn(d, path, line) ==
  LET T == ingest(d)
  IN  {functionFanIn(T.heap, T.modules, T.functions, T.calls, f) :
         f \in recordsAt(T.heap, path, line)}

(***************************************************************************)
(* Source-level notions the properties speak of.                           *)
(***************************************************************************)
FunctionNodes(k) ==
  {i \in 1..Len(disk[k].nodes) : IsFunc(disk[k].nodes[i])}

\* the call sites in the body of function g of file k (nested bodies excluded)
\* whose callee name is name; g = 0 is the file's top level
CallSites(k, g, name) ==
  {j \in 1..Len(disk[k].nodes) :
     /\ disk[k].nodes[j].type = "CallExpression"
     /\ EnclFn(disk[k].nodes, j) = g
     /\ getCalleeName(disk[k].nodes[j]) = name}

\* the disk with those call sites calling something else instead
Retargeted(k, sites) ==
  [disk EXCEPT ![k].nodes =
     [j \in 1..Len(disk[k].nodes) |->
        IF j \in sites
        THEN [disk[k].nodes[j] EXCEPT !.calleeType = "Identifier",
                                      !.object = NoName, !.name = "elsewhere"]
        ELSE disk[k].nodes[j]]]

Aggregated == pc = "report" /\ ret.op = NoReturn.op

\* C1: whatever the number of call sites to F in G's body, direct or member,
\* taking them all away lowers the aggregated fanIn(F) by at most 1
C1_CallerCountsOnce ==
  Aggregated =>
    \A kf \in 1..Len(disk), kg \in 1..Len(disk) :
      \A F \in FunctionNodes(kf), G \in FunctionNodes(kg) :
        \A f \in recordsAt(heap, Paths[kf], F) :
          \A without \in fanInOn(Retargeted(kg, CallSites(kg, G, heap[f].name)),
                                 Paths[kf], F) :
            heap[f].fanIn - without <= 1

C1_Witness ==
  /\ Aggregated
  /\ \E kf \in 1..Len(disk), kg \in 1..Len(disk) :
       \E F \in FunctionNodes(kf), G \in FunctionNodes(kg) :
         \E f \in recordsAt(heap, Paths[kf], F) :
           /\ Cardinality(CallSites(kg, G, heap[f].name)) >= 2
           /\ \E j \in CallSites(kg, G, heap[f].name) :
                disk[kg].nodes[j].calleeType = "MemberExpression"
           /\ heap[f].fanIn = 1
           /\ fanInOn(Retargeted(kg, CallSites(kg, G, heap[f].name)),
                      Paths[kf], F) = {0}

\* the functions whose bodies call name: the function definitions, anywhere
\* in the project, with a call site naming it in their own body
callingFunctions(name) ==
  {kg \in UNION {{k} \X FunctionNodes(k) : k \in 1..Len(disk)} :
     CallSites(kg[1], kg[2], name) # {}}

\* C2: after aggregation fanIn(F) is at most the number of distinct functions
\* of the project whose bodies call F; a call at file top level has no caller
C2_FanInWithinCallers ==
  Aggregated =>
    \A f \in 1..Len(heap) :
      heap[f].fanIn <= Cardinality(callingFunctions(heap[f].name))

(***************************************************************************)
(* Call lists of nested functions.  File k has been analyzed once main's   *)
(* loop has passed it.                                                     *)
(***************************************************************************)
Analyzed(k) == k \in 1..idx /\ disk[k].parses

\* the call sites extractCalls has a rule for: every call through a member
\* access, and the direct calls of names outside the built-in list
Recorded(n) == n.calleeType = "Identifier" => n.name \notin builtins

\* for function N of file k defined inside function O and a call site j of N's
\* body: the call is in N's list, and in O's list only if O makes it outside N
Isolated(k, O, N, j) ==
  LET nodes == disk[k].nodes
      name  == getCalleeName(nodes[j])
  IN  /\ recordsAt(heap, Paths[k], N) # {}
      /\ recordsAt(heap, Paths[k], O) # {}
      /\ \A n \in recordsAt(heap, Paths[k], N) : InSeq(name, heap[n].calls)
      /\ \A o \in recordsAt(heap, Paths[k], O) :
           InSeq(name, heap[o].calls) =>
             \E j2 \in 1..Len(nodes) :
               /\ nodes[j2].type = "CallExpression"
               /\ getCalleeName(nodes[j2]) = name
               /\ O \in Ancestors(nodes, j2)
               /\ N \notin Ancestors(nodes, j2)

NestedCalls(k) ==
  {t \in FunctionNodes(k) \X FunctionNodes(k) \X (1..Len(disk[k].nodes)) :
     /\ t[1] \in Ancestors(disk[k].nodes, t[2])
     /\ disk[k].nodes[t[3]].type = "CallExpression"
     /\ EnclFn(disk[k].nodes, t[3]) = t[2]}

C4_TrivialModulesScoreOne ==
  ret.op = "calculateCohesion" =>
    /\ Len(ret.value) = Len(modules)
    /\ \A i \in 1..Len(modules) :
         LET n == Len(modules[i].val.functions)
             e == ret.value[i]
         IN  /\ n = 0 => /\ NumEq(e.cohesion, Frac(1, 1))
                         /\ e.reason = "No functions to measure"
             /\ n = 1 => /\ NumEq(e.cohesion, Frac(1, 1))
                         /\ e.reason = "Single function module"

C4_Witness ==
  /\ ret.op = "calculateCohesion"
  /\ \E i \in 1..Len(modules), j \in 1..Len(modules) :
       /\ Len(modules[i].val.functions) = 0
       /\ Len(modules[i].val.calls) > 0
       /\ NumEq(ret.value[i].cohesion, Frac(1, 1))
       /\ Len(modules[j].val.functions) = 1
       /\ Len(modules[j].val.calls) > 0
       /\ NumEq(ret.value[j].cohesion, Frac(1, 1))

RoomIdProject(d) ==
  /\ Len(d) = 1
  /\ d[1].parses
  /\ LET g == Node("FunctionDeclaration", 0, "generateRoomId", NoName, NoName, <<>>, 1)
         c == Node("CallExpression", 1, "helper", "Identifier", NoName, <<>>, 2)
         h == Node("FunctionDeclaration", 0, "helper", NoName, NoName, <<>>, 3)
         shift(n, by, par) == [n EXCEPT !.line = @ + by, !.parent = par]
     IN  d[1].nodes \in {<<g, c, h>>,
                         <<shift(h, -2, 0), shift(g, 1, 0), shift(c, 1, 2)>>}

namedFunctions(h, name) == {f \in 1..Len(h) : h[f].name = name}

\* C6: for that project the analysis yields generateRoomId.fanOut = 1,
\* generateRoomId.fanIn = 0, helper.fanIn = 1, helper.fanOut = 0, and
\* calculateCohesion yields module cohesion 1
C6_RoomIdScenario ==
  RoomIdProject(disk) =>
    /\ pc = "report" =>
         /\ Cardinality(namedFunctions(heap, "generateRoomId")) = 1
         /\ Cardinality(namedFunctions(heap, "helper")) = 1
         /\ \A f \in namedFunctions(heap, "generateRoomId") :
              heap[f].fanOut = 1 /\ heap[f].fanIn = 0
         /\ \A f \in namedFunctions(heap, "helper") :
              heap[f].fanIn = 1 /\ heap[f].fanOut = 0
    /\ ret.op = "calculateCohesion" =>
         /\ Len(ret.value) = 1
         /\ NumEq(ret.value[1].cohesion, Frac(1, 1))
         /\ NumEq(modules[1].val.cohesion, Frac(1, 1))

C6_Witness ==
  /\ RoomIdProject(disk)
  /\ ret.op = "calculateCohesion"
  /\ \E f \in namedFunctions(heap, "helper") : heap[f].fanIn = 1

(***************************************************************************)
(* Callbacks: the function expressions and arrow functions of file k that  *)
(* are an argument of a call object.method(...), and the string-literal    *)
(* arguments of a call.                                                    *)
(***************************************************************************)
MethodCallbacks(k) ==
  {i \in FunctionNodes(k) :
     LET nodes == disk[k].nodes
         p == nodes[i].parent
     IN  /\ nodes[i].type # "FunctionDeclaration"
         /\ p # 0
         /\ nodes[p].type = "CallExpression"
         /\ nodes[p].calleeType = "MemberExpression"
         /\ nodes[p].object # NoName}

StringArgs(k, p) ==
  {a \in 1..Len(disk[k].nodes) :
     disk[k].nodes[a].parent = p /\ disk[k].nodes[a].type = "Literal"}

\* C7: an anonymous function passed as an argument of object.method(...) is
\* named object.method_value, value being the string-literal argument of that
\* call, and object.method_handler when the call has no such argument
C7_CallbackNamedAfterEvent ==
  \A k \in 1..Len(disk) :
    Analyzed(k) =>
      \A i \in MethodCallbacks(k) :
        LET nodes == disk[k].nodes
            p == nodes[i].parent
            prefix == nodes[p].object \o "." \o nodes[p].name \o "_"
        IN  /\ recordsAt(heap, Paths[k], i) # {}
            /\ \A f \in recordsAt(heap, Paths[k], i) :
                 IF StringArgs(k, p) = {}
                 THEN heap[f].name = prefix \o "handler"
                 ELSE \E a \in StringArgs(k, p) :
                        heap[f].name = prefix \o nodes[a].name

\* socket.on('draw', function (data) { ... }) is recorded as socket.on_draw
C7_Witness ==
  \E k \in 1..Len(disk) :
    /\ Analyzed(k)
    /\ \E i \in MethodCallbacks(k) :
         /\ disk[k].nodes[i].type = "FunctionExpression"
         /\ disk[k].nodes[disk[k].nodes[i].parent].object = "socket"
         /\ disk[k].nodes[disk[k].nodes[i].parent].name = "on"
         /\ \E a \in StringArgs(k, disk[k].nodes[i].parent) :
              a < i /\ disk[k].nodes[a].name = "draw"
         /\ \E f \in recordsAt(heap, Paths[k], i) : heap[f].name = "socket.on_draw"

\* two functions that do not call one another and share no parameter name, no
\* call-target base object and no domain keyword
Unrelated(func1, func2) ==
  /\ ~callsEachOther(func1, func2)
  /\ SeqToSet(func1.params) \cap SeqToSet(func2.params) = {}
  /\ ~sharedDeps(func1, func2)
  /\ ~similarData(func1, func2)

UnrelatedModule(h, m) ==
  /\ Len(m.functions) >= 2
  /\ \A a \in 1..Len(m.functions), b \in 1..Len(m.functions) :
       a < b => Unrelated(h[m.functions[a]], h[m.functions[b]])

\* C8: a module of two or more functions, no two of them related, yields
\* cohesion 0 and the rating Low, also when the functions declare parameters
\* with pairwise different names
C8_UnrelatedScoreZero ==
  ret.op = "calculateCohesion" =>
    \A i \in 1..Len(modules) :
      UnrelatedModule(heap, modules[i].val) =>
        /\ NumEq(ret.value[i].cohesion, Frac(0, 1))
        /\ ret.value[i].rating = "Low"

\* C10: whenever discovery returned at least one file, the run ends
\* successfully with the report written, whatever the files contain
C10_RunEndsWithReport ==
  (pc = "exited" /\ Len(allFiles) > 0) => (exitCode = 0 /\ reportFile # NoReport)

\* C11: when discovery finds no file, the script prints an explanatory message
\* and ends with a non-zero status, having analyzed nothing and written no
\* report file
C11_NoFilesExit ==
  (pc = "exited" /\ Len(allFiles) = 0) =>
    /\ exitCode > 0
    /\ log[Len(log)] = "No JavaScript files found!"
    /\ idx = 0
    /\ Tables = NoTables
    /\ metrics = NoMetrics
    /\ reportFile = NoReport

C11_Witness ==
  /\ pc = "exited"
  /\ Len(allFiles) = 0
  /\ exitCode = 1
  /\ InSeq("No JavaScript files found!", log)

\* C12: the report of a successful run contains, besides the project summary
\* and the function table, the coupling pairs and the per-module cohesion
C12_ReportHasCouplingAndCohesion ==
  reportFile # NoReport =>
    /\ {"summary", "functionTable"} \subseteq DOMAIN reportFile[1]
    /\ {"couplingPairs", "cohesion"} \subseteq DOMAIN reportFile[1]

\* the place in the log of the line main prints for file k before analyzing it
listingLine(k) == CHOOSE i \in 1..Len(log) : log[i] = allFiles[k]

\* C13: for every file whose parse fails, a warning is printed before the
\* analysis moves on: something follows the file's listing line in the log
\* when analyzeFile has returned
C13_ParseFailureWarned ==
  \A k \in 1..Len(disk) :
    (pc = "discovered" /\ idx = k /\ ~disk[k].parses) =>
      Len(log) > listingLine(k)

\* the analysis of a file fails when esprima rejects its text or a walk throws
Failed(code) == ~code.parses \/ throwsAt(code.nodes) # 0

\* nothing in the module table, the function registry or the call list comes
\* from the file at path
NoTrace(path) ==
  /\ ~MapHas(modules, path)
  /\ \A k \in 1..Len(functions) : heap[functions[k].val].file # path
  /\ \A k \in 1..Len(calls) : calls[k].from # path

\* C14: when the analysis of a file fails, at parsing or while its tree is
\* walked, the tables are as they were before the file (they hold nothing of
\* it), and every remaining discovered file is still analyzed
C14_FailedFileLeavesNoTrace ==
  /\ \A k \in 1..idx : Failed(disk[k]) => NoTrace(Paths[k])
  /\ pc \in {"report", "exited"} => idx = Len(allFiles)

\* C15: the IFC rating follows the documented bands: below 25 the lowest band,
\* from 25 to 100 Medium, and the high band only above 100
C15_DocumentedRatingBands ==
  ret.op = "calculateInformationFlowComplexity" =>
    \A k \in 1..Len(ret.value) :
      LET e == ret.value[k]
          ifc == e.informationFlowComplexity
      IN  /\ ifc < 25 => e.rating \in {"Low", "None"}
          /\ (25 <= ifc /\ ifc <= 100) => e.rating = "Medium"
          /\ ifc > 100 <=> e.rating \in {"High", "Very High"}

(***************************************************************************)
(* Outgoing calls at source level.                                         *)
(***************************************************************************)
\* the names function F of file k calls through a bare identifier in its own
\* body, nested function bodies excluded
DirectCallees(k, F) ==
  {disk[k].nodes[j].name :
     j \in {i \in 1..Len(disk[k].nodes) :
              /\ disk[k].nodes[i].type = "CallExpression"
              /\ disk[k].nodes[i].calleeType = "Identifier"
              /\ EnclFn(disk[k].nodes, i) = F}}

\* the names of the functions defined in the analyzed files
UserDefined == {heap[f].name : f \in 1..Len(heap)}

\* C16: the fanOut of a function counts user-defined functions only: it is at
\* most the number of functions of the analyzed files its body calls directly
C16_FanOutCountsUserFunctions ==
  Aggregated =>
    \A k \in 1..Len(disk) : \A F \in FunctionNodes(k) :
      \A f \in recordsAt(heap, Paths[k], F) :
        heap[f].fanOut <= Cardinality(DirectCallees(k, F) \cap UserDefined)

\* C18: the fanOut of a function is the number of distinct names outside the
\* built-in list that its body calls through a bare identifier, whatever
\* member calls the body makes and wherever they stand
C18_FanOutIsDirectCallees ==
  \A k \in 1..Len(disk) : Analyzed(k) =>
    \A F \in FunctionNodes(k) :
      \A f \in recordsAt(heap, Paths[k], F) :
        heap[f].fanOut = Cardinality(DirectCallees(k, F) \ builtins)

(***************************************************************************)
(* Incoming calls, counted from the registry and the call list.            *)
(***************************************************************************)
\* the functions of f's own file, other than f, whose call list holds f's name
OwnFileCallers(f) ==
  {g \in 1..Len(heap) :
     /\ g # f
     /\ heap[g].file = heap[f].file
     /\ InSeq(heap[f].name, heap[g].calls)}

\* the other files with a recorded call whose target is f's name
OtherFileCallers(f) ==
  {calls[j].from : j \in {i \in 1..Len(calls) :
                            calls[i].from # heap[f].file /\ calls[i].to = heap[f].name}}

\* C17: after aggregation fanIn(F) is the number of functions of F's file,
\* other than F, whose call list holds F's name, plus the number of other
\* files with a recorded call to F's name
C17_FanInIsCallersPlusFiles ==
  Aggregated =>
    \A f \in 1..Len(heap) :
      heap[f].fanIn = Cardinality(OwnFileCallers(f)) + Cardinality(OtherFileCallers(f))

(***************************************************************************)
(* When the flows are written.                                             *)
(***************************************************************************)
\* the step is calculateFanInFanOut, taken once main's loop has ended
AggregationStep ==
  pc = "discovered" /\ idx = Len(allFiles) /\ pc' = "report"

\* C19, as the specification states it: no fanIn and no fanOut is written
\* before the call graph of all files is assembled, so until aggregation
\* every record still carries the zeros it was created with
C19_WrittenAfterAssembly ==
  pc = "discovered" => \A f \in 1..Len(heap) : heap[f].fanIn = 0 /\ heap[f].fanOut = 0

\* C19, amended: a record is created with fanIn 0 and with the fanOut counted
\* while its body was walked; no later step changes fanOut, and fanIn changes
\* only in the aggregation step, after the last file
C19_FanOutAtWalkFanInAtAggregation ==
  [][/\ Len(heap') >= Len(heap)
     /\ \A f \in 1..Len(heap) :
          /\ heap'[f].fanOut = heap[f].fanOut
          /\ heap'[f].fanIn # heap[f].fanIn => AggregationStep
     /\ \A f \in (Len(heap) + 1)..Len(heap') :
          /\ heap'[f].fanIn = 0
          /\ heap'[f].fanOut =
               extractCalls(disk[idx + 1].nodes, heap'[f].line).fanOut]_vars

C19_Witness ==
  /\ Aggregated
  /\ Len(allFiles) = 2
  /\ \E f \in 1..Len(heap), g \in 1..Len(heap) :
       /\ heap[f].fanIn = 1
       /\ heap[g].fanOut = 1
       /\ heap[g].file # heap[f].file

\* C20: aggregation has started only if every discovered file has been
\* analyzed, and the fanIn values it wrote are those of the whole project
C20_AggregationAfterAllFiles ==
  (pc = "report" \/ metrics # NoMetrics \/ \E f \in 1..Len(heap) : heap[f].fanIn # 0) =>
    /\ idx = Len(allFiles)
    /\ Len(allFiles) = Len(disk)
    /\ \A k \in 1..Len(disk) : \A F \in FunctionNodes(k) :
         \A f \in recordsAt(heap, Paths[k], F) :
           fanInOn(disk, Paths[k], F) = {heap[f].fanIn}

C20_Witness ==
  /\ pc = "report"
  /\ Len(allFiles) = 2
  /\ idx = 2
  /\ \E f \in 1..Len(heap) :
       /\ heap[f].file = Paths[1]
       /\ heap[f].fanIn = 1
       /\ OtherFileCallers(f) = {Paths[2]}

(***************************************************************************)
(* Names of anonymous functions.                                           *)
(***************************************************************************)
\* ancestor p of function i of a tree gives it a name by one of the rules:
\* a variable binding, an object-literal property, or a call object.method(...)
\* that has the function among its arguments
NamingAncestor(nodes, i, p) ==
  \/ nodes[p].type \in {"VariableDeclarator", "Property"} /\ nodes[p].name # NoName
  \/ /\ nodes[p].type = "CallExpression"
     /\ nodes[p].calleeType = "MemberExpression"
     /\ nodes[p].object # NoName
     /\ nodes[p].name # NoName
     /\ nodes[i].parent = p

\* C21: a function expression or arrow function is given a synthesized
\* anonymous_<n> name only when none of its ancestors, up to the file root,
\* is a naming ancestor
C21_AnonymousOnlyWithoutNamingAncestor ==
  \A k \in 1..Len(disk) : Analyzed(k) =>
    \A i \in FunctionNodes(k) :
      \A f \in recordsAt(heap, Paths[k], i) :
        (disk[k].nodes[i].type # "FunctionDeclaration"
           /\ Includes(heap[f].name, "anonymous_")) =>
          \A p \in Ancestors(disk[k].nodes, i) : ~NamingAncestor(disk[k].nodes, i, p)

(***************************************************************************)
(* Records and definitions.                                                *)
(***************************************************************************)
\* the funcInfo objects made for the definitions of a file
recordsOf(path) == {f \in 1..Len(heap) : heap[f].file = path}

\* the registry's entries for a file
registeredOf(path) ==
  {i \in 1..Len(functions) : heap[functions[i].val].file = path}

\* C22: every function definition of a successfully analyzed file has its own
\* record, in the file's list and in the registry
C22_OneRecordPerDefinition ==
  \A k \in 1..Len(disk) : (Analyzed(k) /\ MapHas(modules, Paths[k])) =>
    /\ Cardinality(recordsOf(Paths[k])) = Cardinality(FunctionNodes(k))
    /\ Cardinality(registeredOf(Paths[k])) = Cardinality(FunctionNodes(k))

(***************************************************************************)
(* Calls of built-in names.                                                *)
(***************************************************************************)
\* the call sites of file k that call a name of the built-in list directly
BuiltinCalls(k) ==
  {j \in 1..Len(disk[k].nodes) :
     /\ disk[k].nodes[j].type = "CallExpression"
     /\ disk[k].nodes[j].calleeType = "Identifier"
     /\ disk[k].nodes[j].name \in builtins}

\* C23: a direct call of a name of the built-in list leaves no record: none in
\* the project's call list, and none in the call list of the function making it
C23_BuiltinCallsUnrecorded ==
  \A k \in 1..Len(disk) : Analyzed(k) =>
    \A j \in BuiltinCalls(k) :
      LET nodes == disk[k].nodes
          name  == nodes[j].name
          F     == EnclFn(nodes, j)
      IN  /\ ~\E c \in 1..Len(calls) :
               calls[c].from = Paths[k] /\ calls[c].line = j /\ calls[c].to = name
          /\ \A f \in recordsAt(heap, Paths[k], F) :
               InSeq(name, heap[f].calls) =>
                 \E m \in CallSites(k, F, name) :
                   nodes[m].calleeType = "MemberExpression"

(***************************************************************************)
(* Coupling between the functional groups of a single module.              *)
(***************************************************************************)
\* the calls calculateCoupling returned for the groups numbered i and j
emittedCalls(i, j) ==
  LET ps == ret.value.couplingPairs
      at == {k \in 1..Len(ps) :
               ps[k].module1 = groupNames[i] /\ ps[k].module2 = groupNames[j]}
  IN  IF at = {} THEN 0 ELSE ps[CHOOSE k \in at : TRUE].calls

\* C25: in a single module, the count of a pair of groups includes the calls
\* of either direction: those of the first group's functions to targets of the
\* second, and those of the second group's functions to targets of the first
C25_CouplingBothDirections ==
  (ret.op = "calculateCoupling" /\ Len(modules) = 1) =>
    \A i \in 1..Len(groupNames), j \in 1..Len(groupNames) :
      i < j =>
        /\ emittedCalls(i, j) >= groupCallsBetween(heap, modules[1].val,
                                   functionalGroups[i], functionalGroups[j])
        /\ emittedCalls(i, j) >= groupCallsBetween(heap, modules[1].val,
                                   functionalGroups[j], functionalGroups[i])

(***************************************************************************)
(* Cohesion of a module with two or more functions.                        *)
(***************************************************************************)
\* the pairs of functions of module m with some evidence of relatedness: a
\* call of one by the other, a shared parameter name, a shared dependency,
\* a shared domain keyword
RelatedPairs(h, m) ==
  {pr \in (1..Len(m.functions)) \X (1..Len(m.functions)) :
     /\ pr[1] < pr[2]
     /\ ~Unrelated(h[m.functions[pr[1]]], h[m.functions[pr[2]]])}

\* C24: for a module of N >= 2 functions the emitted cohesion is the number of
\* related pairs over N(N-1)/2, lies in [0, 1], and is rated High above 0.7,
\* Medium above 0.3 up to 0.7, Low otherwise
C24_CohesionIsRelatedFraction ==
  ret.op = "calculateCohesion" =>
    \A i \in 1..Len(modules) :
      LET m == modules[i].val
          N == Len(m.functions)
          e == ret.value[i]
      IN  N >= 2 =>
            /\ NumEq(e.cohesion,
                     Frac(Cardinality(RelatedPairs(heap, m)), (N * (N - 1)) \div 2))
            /\ 0 <= e.cohesion.num /\ e.cohesion.num <= e.cohesion.den
            /\ e.rating = "High" <=> NumGt(e.cohesion, 7, 10)
            /\ e.rating = "Medium" <=>
                 (NumGt(e.cohesion, 3, 10) /\ ~NumGt(e.cohesion, 7, 10))
            /\ e.rating = "Low" <=> ~NumGt(e.cohesion, 3, 10)

\* C26: after calculateCohesion every module's stored cohesion is the
\* cohesion emitted for it, whatever its number of functions
C26_StoredCohesionIsEmitted ==
  ret.op = "calculateCohesion" =>
    \A i \in 1..Len(modules) :
      NumEq(modules[i].val.cohesion, ret.value[i].cohesion)

(***************************************************************************)
(* The registry and the modules' function lists.                           *)
(***************************************************************************)
\* C27: whatever analyzeFile calls were made, each funcInfo object of a
\* module's function list is the object the registry holds under the key
\* of its path, name and line, the registry holds no object of no module, and
\* generateMetrics does not end in an exception
C27_RegistryHoldsModuleRecords ==
  /\ \A i \in 1..Len(modules) :
       \A j \in 1..Len(modules[i].val.functions) :
         LET id == modules[i].val.functions[j]
         IN  \E r \in 1..Len(functions) :
               /\ functions[r].key = functionKey(modules[i].key, heap[id])
               /\ functions[r].val = id
  /\ \A r \in 1..Len(functions) :
       \E i \in 1..Len(modules) : InSeq(functions[r].val, modules[i].val.functions)
  /\ ~(pc = "exited" /\ Len(functions) > 0 /\ metrics = NoMetrics)

\* C28: a second generateMetrics, with no file analyzed since the first,
\* leaves the fanIn and fanOut of every function and of every module, and the
\* metrics computed from them, as the first call left them
C28_SecondAggregationChangesNothing ==
  [][(pc = "report" /\ pc' = "report again") =>
       (heap' = heap /\ modules' = modules /\ metrics' = metrics)]_vars

C28_Witness ==
  /\ pc = "report again"
  /\ \E f \in 1..Len(heap) : heap[f].fanIn > 0
  /\ \E g \in 1..Len(heap) : heap[g].fanOut > 0
  /\ \E i \in 1..Len(modules) : modules[i].val.fanIn > 0 /\ modules[i].val.fanOut > 0

\* C29: in the relay server every room held in rooms has at least one member,
\* and its member set is exactly the set of sockets that have a user name
\* recorded in that room.
C29_RoomsHaveNamedMembers ==
  \A r \in DOMAIN rooms :
    /\ rooms[r].users # {}
    /\ rooms[r].users = DOMAIN rooms[r].userNames

\* a socket has disconnected from two rooms: one lives on with the members
\* that remain, the other was removed with its last member
C29_Witness ==
  \E e1 \in sent, e2 \in sent :
    /\ e1.event = "user-left" /\ e1.roomId \in DOMAIN rooms
    /\ e2.event = "user-left" /\ e2.roomId \notin DOMAIN rooms
    /\ sockets[e1.from] = "gone"

\* C30: in the relay server a draw or canvas-state-update event is passed on
\* to a room, or changes the room's stored canvas state, only if the socket
\* that sent it is a member of that room.
C30_RelayOnlyFromMembers ==
  \A e \in sent :
    e.event \in {"draw", "canvas-state"} => e.from \in rooms[e.roomId].users


====
